---- MODULE Spec2Model ----
(***************************************************************************)
(* Model of the admission middleware of src/index.js: ratelimit(opts,      *)
(* handler) returns an async function (req, res); each invocation is a     *)
(* request that runs from one await to the next.  The counter store        *)
(* (the Limiter object, an external collaborator) is modelled as an        *)
(* atomic fixed-window counter per identity.                               *)
(***************************************************************************)
EXTENDS Integers, FiniteSets, Sequences, TLC

(* ---------------------------------------------------------------------- *)
(* Bounds of the model.                                                    *)
(* ---------------------------------------------------------------------- *)
\* number of concurrent invocations of the returned function
NumReq == 2
\* the clock advances TickMs at a time, at most MaxTicks times
MaxTicks == 3
\* largest opts.max drawn at construction
MaxMax == 2
\* latest window close (seconds) of a store entry that exists at the start
MaxReset == 2

\* one step of the clock, in milliseconds (half a second, so that
\* Date.now() / 1000 has a fractional part on every other tick)
TickMs == 500
\* the resolution of Date.now(), one millisecond
Jiffy == 1
\* how far the clock can move between two reads that follow one another:
\* not at all, by one millisecond, or by a step
ClockSteps == {0, Jiffy, TickMs}
\* opts.duration, the window length in milliseconds: two steps of the clock
Duration == 2 * TickMs
\* a window of thirty days, in seconds: longer than 2^31 milliseconds
MonthSeconds == 2592000

Req == 1..NumReq

(* ---------------------------------------------------------------------- *)
(* JavaScript values.                                                      *)
(* ---------------------------------------------------------------------- *)
JsUndefined == "<undefined>"
JsFalse == "<false>"

\* truthiness of a string-or-undefined-or-false value (the operand of ||, ?:)
TruthyStr(v) == v # JsUndefined /\ v # JsFalse /\ v # ""

\* truthiness of a number (the operand of if (...))
TruthyNum(n) == n # 0

\* Numbers of milliseconds are kept as [q, r], standing for 1000 * q + r with
\* 0 <= r < 1000, so that those beyond 32 bits can be written down.
\* 2^32 = 1000 * Pow32Q + Pow32R and 2^31 = 1000 * Pow31Q + Pow31R
Pow32Q == 4294967
Pow32R == 296
Pow31Q == 2147483
Pow31R == 648

\* rst * 1000 - t, for rst in seconds and t in milliseconds
MsBetween(rst, t) ==
  IF t % 1000 = 0
    THEN [q |-> rst - (t \div 1000), r |-> 0]
    ELSE [q |-> rst - (t \div 1000) - 1, r |-> 1000 - (t % 1000)]

\* 1000 * q + r as one number of 32 bits, summed so that no partial sum
\* leaves the 32 bits
Join(q, r) == IF q < 0 THEN 1000 * (q + 1) + (r - 1000) ELSE 1000 * q + r

\* m >= 2^31
AboveInt32(m) == m.q > Pow31Q \/ (m.q = Pow31Q /\ m.r >= Pow31R)

\* m < -2^31
BelowInt32(m) == m.q < -Pow31Q - 1 \/ (m.q = -Pow31Q - 1 /\ m.r < 1000 - Pow31R)

\* `m | 0` for an integer m: ToInt32, m modulo 2^32 taken into
\* -2^31 .. 2^31 - 1 (for |m| < 2^32 + 2^31: one wrap at most)
ToInt32(m) ==
  IF AboveInt32(m) THEN Join(m.q - Pow32Q, m.r - Pow32R)
  ELSE IF BelowInt32(m) THEN Join(m.q + Pow32Q, m.r + Pow32R)
  ELSE Join(m.q, m.r)

\* `x | 0` for x = m / 1000: the quotient truncated toward zero (it lies
\* within 32 bits for every m of this representation)
TruncSeconds(m) == IF m.q < 0 /\ m.r > 0 THEN m.q + 1 ELSE m.q

(* ---------------------------------------------------------------------- *)
(* State.                                                                  *)
(* ---------------------------------------------------------------------- *)
VARIABLES
  opts,          \* the configuration given to ratelimit(opts, handler)
  now,           \* Date.now(), milliseconds
  store,         \* the store's counter and window close of each identity
  pc,            \* where each request stands
  id,            \* const id, line 52
  whitelisted,   \* const whitelisted, line 53
  blacklisted,   \* const blacklisted, line 54
  limit,         \* const limit, line 68
  readNow,       \* what Date.now() returned at line 85 and at line 86
  headers,       \* the response's headers, a set of <<name, value>>
  statusCode,    \* res.statusCode
  ended,         \* number of calls of res.end
  body,          \* what res.end was given
  err,           \* the error the request's promise rejected with
  handlerCalls,  \* number of calls of handler(req, res) by each request
  storeQueries,  \* number of calls of limiter.get by each request
  outcome        \* the decision taken for each request

(* ---------------------------------------------------------------------- *)
(* Header names, lines 45-49 and 87.                                       *)
(* ---------------------------------------------------------------------- *)
\* A header name is the sequence of the UTF-16 code units of the string, so
\* that its case can be folded and its characters tested.  The names of the
\* model are written with the code units of Basic Latin, Latin-1 Supplement
\* and Latin Extended-A (0 .. 383), the combining dot above (775) and the
\* Kelvin and Angstrom signs (8490, 8491).
CodeUnits == (0..383) \cup {775, 8490, 8491}

\* String.prototype.toLowerCase of one code unit: A-Z and the capitals of
\* Latin-1 (all of 192 .. 222 but the multiplication sign) lie 32 before
\* their small letters; the capitals of Latin Extended-A lie one before
\* theirs, at even units up to 311 and from 330 on and at odd units in
\* between and from 377 on; capital I with a dot above (304) becomes i and
\* the combining dot; capital Y with diaeresis (376) becomes 255; the Kelvin
\* sign becomes k and the Angstrom sign a with a ring (229)
toLowerCaseUnit(c) ==
  IF c \in 65..90 THEN <<c + 32>>
  ELSE IF c \in (192..222) \ {215} THEN <<c + 32>>
  ELSE IF c = 304 THEN <<105, 775>>
  ELSE IF c = 376 THEN <<255>>
  ELSE IF c \in (256..303) \cup (306..311) \cup (330..375) /\ c % 2 = 0
    THEN <<c + 1>>
  ELSE IF c \in (313..328) \cup (377..382) /\ c % 2 = 1 THEN <<c + 1>>
  ELSE IF c = 8490 THEN <<107>>
  ELSE IF c = 8491 THEN <<229>>
  ELSE <<c>>

\* each code unit with what it is folded to
FoldCase == [c \in CodeUnits |-> toLowerCaseUnit(c)]

\* the folding of the code unit c
Fold(c) == IF c \in CodeUnits THEN FoldCase[c] ELSE toLowerCaseUnit(c)

\* the foldings of the code units of name, one after the other
RECURSIVE FoldAll(_)
FoldAll(name) ==
  IF name = <<>> THEN <<>> ELSE Fold(Head(name)) \o FoldAll(Tail(name))

\* name.toLowerCase(), the key res.setHeader keeps a header under and
\* res.getHeader looks it up by: unit by unit when each is folded into one
\* unit, as all are but capital I with a dot above
toLowerCase(name) ==
  IF \E i \in 1..Len(name) : name[i] = 304
    THEN FoldAll(name)
    ELSE [i \in 1..Len(name) |-> Fold(name[i])[1]]

\* the characters of an HTTP token: the digits, the letters A-Z and a-z,
\* and ! # $ % & ' * + - . ^ _ ` | ~
TokenChars ==
  (48..57) \cup (65..90) \cup (97..122)
    \cup {33, 35, 36, 37, 38, 39, 42, 43, 45, 46, 94, 95, 96, 124, 126}

\* the test res.setHeader makes of a name: one character or more, each of
\* a token
checkIsHttpToken(name) ==
  Len(name) > 0 /\ \A i \in 1..Len(name) : name[i] \in TokenChars

\* 'Retry-After', the name of the header of line 87
RetryAfter ==
  <<82, 101, 116, 114, 121, 45, 65, 102, 116, 101, 114>>

\* the defaults of lines 46-48: 'X-RateLimit-Remaining',
\* 'X-RateLimit-Reset' and 'X-RateLimit-Limit'
DefaultRemaining ==
  <<88, 45, 82, 97, 116, 101, 76, 105, 109, 105, 116, 45, 82, 101, 109, 97,
    105, 110, 105, 110, 103>>
DefaultReset ==
  <<88, 45, 82, 97, 116, 101, 76, 105, 109, 105, 116, 45, 82, 101, 115,
    101, 116>>
DefaultTotal ==
  <<88, 45, 82, 97, 116, 101, 76, 105, 109, 105, 116, 45, 76, 105, 109,
    105, 116>>

\* a name opts.headers does not hold: undefined, which is no string
NoName == <<-1>>

\* opts.headers with no name in it, and opts without headers (opts.headers
\* || {}, line 49)
NoNames == [remaining |-> NoName, reset |-> NoName, total |-> NoName]

\* the values of opts.headers: no name; 'x-ratelimit-limit', the default of
\* the total in lower case, for the remaining; 'retry-after', the name of
\* the header of line 87 in lower case, for the total; a name of its own
\* for each, 'R', a backquote and 'T'; 'a b', a name with a space in it;
\* an empty name for the total, and for the remaining
HeaderOpts ==
  {NoNames,
   [NoNames EXCEPT !.remaining = toLowerCase(DefaultTotal)],
   [NoNames EXCEPT !.total = toLowerCase(RetryAfter)],
   [remaining |-> <<82>>, reset |-> <<96>>, total |-> <<84>>],
   [NoNames EXCEPT !.reset = <<97, 32, 98>>],
   [NoNames EXCEPT !.total = <<>>],
   [NoNames EXCEPT !.remaining = <<>>]}

\* lines 45-49: a name of opts.headers, or the default when it is undefined
remaining ==
  IF opts.headers.remaining = NoName THEN DefaultRemaining
  ELSE opts.headers.remaining
reset ==
  IF opts.headers.reset = NoName THEN DefaultReset
  ELSE opts.headers.reset
total ==
  IF opts.headers.total = NoName THEN DefaultTotal
  ELSE opts.headers.total
RateLimitHeaders == {total, remaining, reset}

\* the names the model gives to headers, each with its lower case, and
\* those of them that are HTTP tokens (computed once)
ModelNames ==
  {RetryAfter, DefaultRemaining, DefaultReset, DefaultTotal}
    \cup UNION {{o.remaining, o.reset, o.total} : o \in HeaderOpts}
LowerCased == [name \in ModelNames |-> toLowerCase(name)]
HttpTokens == {name \in ModelNames : checkIsHttpToken(name)}

\* the key res.setHeader and res.getHeader keep a header under:
\* name.toLowerCase()
HeaderKey(name) ==
  IF name \in ModelNames THEN LowerCased[name] ELSE toLowerCase(name)

\* res.setHeader(name, value) throws a TypeError (ERR_INVALID_HTTP_TOKEN)
\* when the name is no HTTP token
setHeaderThrows(name) ==
  IF name \in ModelNames THEN name \notin HttpTokens
  ELSE ~checkIsHttpToken(name)

\* res.setHeader(name, value): the header is kept under the name in lower
\* case, with the name and the value of the last call; nothing is kept of a
\* call that throws
setHeader(h, name, value) ==
  IF setHeaderThrows(name) THEN h
  ELSE LET key == HeaderKey(name)
       IN  {p \in h : HeaderKey(p[1]) # key} \cup {<<name, value>>}

\* res.getHeader(name): the values kept under the name, whatever its case
getHeader(h, name) ==
  LET key == HeaderKey(name)
  IN  {p[2] : p \in {q \in h : HeaderKey(q[1]) = key}}

HeaderNames(h) == {p[1] : p \in h}

(* ---------------------------------------------------------------------- *)
(* Identity resolution, lines 34-39 and 52.                                *)
(* ---------------------------------------------------------------------- *)
\* req.connection.socket is undefined: reading its remoteAddress throws
NoSocket == "<no socket>"

\* the requests the server hands over: a forwarded-for header or none, and
\* the remote address of the live connection
Requests ==
  [xff : {JsUndefined, "a"}, connRemote : {"b"}, sockRemote : {"b"},
   connSockRemote : {NoSocket}]

\* requests of any shape: an empty forwarded-for header, a connection that
\* has lost its remote address, a legacy connection with a socket of its own
AnyRequests ==
  [xff : {JsUndefined, "", "a"}, connRemote : {JsUndefined, "b"},
   sockRemote : {JsUndefined, "b"}, connSockRemote : {NoSocket, JsUndefined, "b"}]

\* the values an opts.id resolver returns
IdResults == {"a", "b", JsFalse}

\* the falsy values a resolver can return besides false
FalsyIds == {"", JsUndefined}

\* the identities the store keeps a counter for: those a Limiter can be
\* built with
Ids == {"a", "b"}

Or(x, y) == IF TruthyStr(x) THEN x ELSE y

keyGenerator(req) ==
  Or(req.xff, Or(req.connRemote, Or(req.sockRemote, req.connSockRemote)))

\* line 38 is reached and req.connection.socket is undefined: a TypeError
keyGeneratorThrows(req) ==
  /\ ~TruthyStr(req.xff)
  /\ ~TruthyStr(req.connRemote)
  /\ ~TruthyStr(req.sockRemote)
  /\ req.connSockRemote = NoSocket

(* ---------------------------------------------------------------------- *)
(* The middleware's decisions, as the code computes them.                  *)
(* ---------------------------------------------------------------------- *)
\* err.statusCode of the deny-list error, line 58
StatusForbidden == 493
\* res.statusCode of a throttled response, line 89
StatusTooMany == 429

\* line 62 with !id in place of false === id: every falsy identity bypasses
BypassFalsy(i, w) == ~TruthyStr(i) \/ w

\* line 62 with the whitelist forgotten: only id === false bypasses
BypassIdOnly(i, w) == i = JsFalse

\* line 62: false === id || whitelisted
Bypass(i, w) == i = JsFalse \/ w

\* lines 56-65 with the bypass test of line 62 moved above the deny test
RouteBypassFirst(b, i, w) ==
  IF Bypass(i, w) THEN "bypass" ELSE IF b THEN "deny" ELSE "query"

\* lines 56-65: blacklisted requests are denied first, then the bypass test,
\* and what is left queries the store
Route(b, i, w) ==
  IF b THEN "deny" ELSE IF Bypass(i, w) THEN "bypass" ELSE "query"

\* line 71 without the clamp: limit.remaining - 1
CallsUnclamped(rem) == rem - 1

\* line 71: the count reported as remaining after this call
Calls(rem) == IF rem > 0 THEN rem - 1 ELSE 0

\* line 83 testing limit.remaining >= 0
AdmitsNonNegative(rem) == rem >= 0

\* line 83 testing calls, the count after this call, instead
AdmitsOnCalls(rem) == TruthyNum(Calls(rem))

\* line 83: if (limit.remaining)
Admits(rem) == TruthyNum(rem)

\* lines 76-80 with the reply's remaining in the header of line 78, the
\* present call not charged
RateHeadersUncharged(h, disableHeader, lim) ==
  IF ~disableHeader
    THEN setHeader(setHeader(setHeader(h, total, lim.total),
                             remaining, lim.remaining),
                   reset, lim.reset)
    ELSE h

\* lines 76-80 without the test of line 76
RateHeadersAlways(h, disableHeader, lim) ==
  setHeader(setHeader(setHeader(h, total, lim.total),
                      remaining, Calls(lim.remaining)),
            reset, lim.reset)

\* lines 76-80: the three rate-limit headers, unless opts.disableHeader
RateHeaders(h, disableHeader, lim) ==
  IF disableHeader THEN h
  ELSE IF setHeaderThrows(total) THEN h
  ELSE IF setHeaderThrows(remaining) THEN setHeader(h, total, lim.total)
  ELSE setHeader(setHeader(setHeader(h, total, lim.total),
                           remaining, Calls(lim.remaining)),
                 reset, lim.reset)

\* lines 76-80: one of the three calls of res.setHeader throws
RateHeadersThrow(disableHeader) ==
  /\ ~disableHeader
  /\ \E name \in RateLimitHeaders : setHeaderThrows(name)

\* line 85: (limit.reset * 1000) - Date.now() | 0
Delta(rst, t) == ToInt32(MsBetween(rst, t))

\* line 86 with `| 0` applied to Date.now() / 1000 alone
AfterFloorNow(rst, t) == rst - (t \div 1000)

\* line 86: limit.reset - (Date.now() / 1000) | 0; `-` binds tighter than
\* `|`, so the difference reset - now/1000 is what is truncated
After(rst, t) == TruncSeconds(MsBetween(rst, t))

\* line 96: opts.errorMessage || `Rate limit exceeded, retry in ${ms(delta)}.`
\* (delta is kept as the number handed to ms)
DefaultMessage == "Rate limit exceeded, retry in "
ThrottleBody(errorMessage, delta) ==
  IF TruthyStr(errorMessage)
    THEN [text |-> errorMessage, delta |-> 0]
    ELSE [text |-> DefaultMessage, delta |-> delta]

NoBody == [text |-> JsUndefined, delta |-> 0]
NoError == [raised |-> FALSE, message |-> "", statusCode |-> 0]
Error(msg, code) == [raised |-> TRUE, message |-> msg, statusCode |-> code]

\* lines 91-96 with res.end called before opts.throw is looked at
SignalEndThenThrow(throw, errorMessage, delta) ==
  [err |-> IF throw THEN Error("", StatusTooMany) ELSE NoError,
   ended |-> 1,
   body |-> ThrottleBody(errorMessage, delta)]

\* lines 91-96: how a throttled request is signalled: an error carrying
\* res.statusCode (its message is res.body, which nothing has set), or the
\* response ended with the message
Signal(throw, errorMessage, delta) ==
  IF throw
    THEN [err |-> Error("", StatusTooMany), ended |-> 0, body |-> NoBody]
    ELSE [err |-> NoError, ended |-> 1,
          body |-> ThrottleBody(errorMessage, delta)]
NoLimit == [total |-> 0, remaining |-> 0, reset |-> 0]

\* opts.db, the connection the Limiter is given, when there is one
Redis == "<redis>"

\* line 65: new Limiter(Object.assign({}, opts, { id })).  The constructor
\* of the ratelimiter package asserts its id and then its db
\* (assert(this.id, '.id required'); assert(this.db, '.db required')): it
\* throws when the identity is falsy or no connection was configured
LimiterThrows(i, db) == ~TruthyStr(i) \/ ~TruthyStr(db)
LimiterError(i, db) ==
  Error(IF ~TruthyStr(i) THEN ".id required" ELSE ".db required", 0)

(* ---------------------------------------------------------------------- *)
(* The counter store: limiter.get of (id, duration, max), an atomic        *)
(* increment with expiry.                                                  *)
(* ---------------------------------------------------------------------- *)
\* opts.duration is kept as [sec, ms], standing for 1000 * sec + ms
\* milliseconds: the short window of the clock's scale, and a month
ShortWindow == [sec |-> 0, ms |-> Duration]
LongWindow == [sec |-> MonthSeconds, ms |-> 0]
Durations == {ShortWindow, LongWindow}

\* the close (seconds) of a window of duration d opened at time t (ms)
WindowClose(t, d) == (t + d.ms) \div 1000 + d.sec

\* the window of an identity is open at time t (ms): t < 1000 * reset
WindowOpen(entry, t) == t \div 1000 < entry.reset

\* the reply of one consume
StoreReply(entry, t, max, d) ==
  IF WindowOpen(entry, t)
    THEN [total |-> max,
          remaining |-> IF entry.count < max THEN max - entry.count ELSE 0,
          reset |-> entry.reset]
    ELSE [total |-> max, remaining |-> max, reset |-> WindowClose(t, d)]

\* the entry after one consume (the count saturates at max)
StoreNext(entry, t, max, d) ==
  IF WindowOpen(entry, t)
    THEN [entry EXCEPT !.count = IF @ < max THEN @ + 1 ELSE @]
    ELSE [count |-> 1, reset |-> WindowClose(t, d)]

vars == <<opts, now, store, pc, id, whitelisted, blacklisted, limit, readNow,
          headers, statusCode, ended, body, err, handlerCalls, storeQueries,
          outcome>>

reqVars == <<pc, id, whitelisted, blacklisted, limit, readNow, headers,
             statusCode, ended, body, err, handlerCalls, storeQueries, outcome>>

\* the configurations with a connection to the store: every combination of
\* the options the code reads, each drawn from a few values
StoreOpts ==
  [throw : BOOLEAN, disableHeader : BOOLEAN,
   errorMessage : {JsUndefined, "", "slow down"}, max : 1..MaxMax,
   duration : Durations, headers : HeaderOpts, db : {Redis}]

\* a configuration without a connection: the Limiter constructor throws
\* before any other of its options is read
NoStoreOpts ==
  [throw |-> FALSE, disableHeader |-> FALSE, errorMessage |-> JsUndefined,
   max |-> 1, duration |-> ShortWindow, headers |-> NoNames,
   db |-> JsUndefined]

OptsSet == StoreOpts \cup {NoStoreOpts}

\* the response, the locals and the counters of the requests before any runs
InitRequests ==
  /\ pc = [r \in Req |-> "idle"]
  /\ id = [r \in Req |-> JsUndefined]
  /\ whitelisted = [r \in Req |-> FALSE]
  /\ blacklisted = [r \in Req |-> FALSE]
  /\ limit = [r \in Req |-> NoLimit]
  /\ readNow = [r \in Req |-> <<>>]
  /\ headers = [r \in Req |-> {}]
  /\ statusCode = [r \in Req |-> 200]
  /\ ended = [r \in Req |-> 0]
  /\ body = [r \in Req |-> NoBody]
  /\ err = [r \in Req |-> NoError]
  /\ handlerCalls = [r \in Req |-> 0]
  /\ storeQueries = [r \in Req |-> 0]
  /\ outcome = [r \in Req |-> "none"]

\* concurrent requests on a fresh store, ratelimit being called with max
\* and the short duration alone: the options that only shape the response
\* (throw, disableHeader, errorMessage, headers) are left unset, and the
\* connection to the store is given
Init ==
  /\ opts \in {o \in OptsSet : /\ ~o.throw
                                /\ o.db = Redis
                                /\ ~o.disableHeader
                                /\ o.errorMessage = JsUndefined
                                /\ o.headers = NoNames
                                /\ o.duration = ShortWindow}
  /\ now = 0
  /\ store = [i \in Ids |-> [count |-> 0, reset |-> 0]]
  /\ InitRequests

\* the entries the store can hold for an identity under max and duration d:
\* none yet, or a window with 1..max consumes counted that closes within
\* MaxReset seconds or, for a long window, a whole duration from the start
Entries(max, d) ==
  {[count |-> 0, reset |-> 0]}
    \cup [count : 1..max,
          reset : (1..MaxReset) \cup (IF d.sec > 0 THEN {d.sec} ELSE {})]

\* one request under any configuration, at any time, on a store that other
\* requests have used before
InitRequest ==
  /\ opts \in OptsSet
  /\ now \in {k * TickMs : k \in 0..MaxTicks}
  /\ \E e \in Entries(opts.max, opts.duration) : store = [i \in Ids |-> e]
  /\ InitRequests

(* ---------------------------------------------------------------------- *)
(* One request, from one await to the next.                                *)
(* ---------------------------------------------------------------------- *)
\* the request ends: its promise resolves, or rejects with e
Finish(r, what, e) ==
  /\ pc' = [pc EXCEPT ![r] = "done"]
  /\ outcome' = [outcome EXCEPT ![r] = what]
  /\ err' = [err EXCEPT ![r] = e]

\* lines 51-53: the server calls the returned function; the identity is
\* resolved by opts.id when there is one, by keyGenerator otherwise (which
\* may throw), and the whitelist predicate is awaited.  Requests arrive in
\* the order of their numbers.  First, the same with lines 53 and 54
\* swapped and the blacklist predicate awaited first.
ResolveBlacklistFirst(r, results, requests) ==
  /\ pc[r] = "idle"
  /\ r > 1 => pc[r - 1] # "idle"
  /\ \E hasId \in BOOLEAN, v \in results, req \in requests :
       IF ~hasId /\ keyGeneratorThrows(req)
         THEN /\ Finish(r, "Error", Error("TypeError", 0))
              /\ UNCHANGED id
         ELSE /\ id' = [id EXCEPT ![r] = IF hasId THEN v
                                         ELSE keyGenerator(req)]
              /\ pc' = [pc EXCEPT ![r] = "blacklist"]
              /\ UNCHANGED <<err, outcome>>
  /\ UNCHANGED <<opts, now, store, whitelisted, blacklisted, limit, readNow,
                 headers, statusCode, ended, body, handlerCalls, storeQueries>>

\* lines 51-53, as above
Resolve(r, results, requests) ==
  /\ pc[r] = "idle"
  /\ r > 1 => pc[r - 1] # "idle"
  /\ \E hasId \in BOOLEAN, v \in results, req \in requests :
       IF ~hasId /\ keyGeneratorThrows(req)
         THEN /\ Finish(r, "Error", Error("TypeError", 0))
              /\ UNCHANGED id
         ELSE /\ id' = [id EXCEPT ![r] = IF hasId THEN v
                                         ELSE keyGenerator(req)]
              /\ pc' = [pc EXCEPT ![r] = "whitelist"]
              /\ UNCHANGED <<err, outcome>>
  /\ UNCHANGED <<opts, now, store, whitelisted, blacklisted, limit, readNow,
                 headers, statusCode, ended, body, handlerCalls, storeQueries>>

\* the same behind a lock held from the call to the end of the request: a
\* request starts only when no other is under way
InvokeOneAtATime(r) ==
  /\ \A q \in Req \ {r} : pc[q] \in {"idle", "done"}
  /\ Resolve(r, IdResults, Requests)

\* a request on a live connection, resolved to an identity or to false
Invoke(r) == Resolve(r, IdResults, Requests)

\* a request of any shape, resolved to any value
InvokeAny(r) == Resolve(r, IdResults \cup FalsyIds, AnyRequests)

\* lines 53-54: the whitelist predicate answers (false when opts.whitelist
\* is no function) and the blacklist predicate is awaited
WhitelistReturn(r) ==
  /\ pc[r] = "whitelist"
  /\ \E isFunction \in BOOLEAN, answer \in BOOLEAN :
       whitelisted' = [whitelisted EXCEPT ![r] = IF isFunction THEN answer
                                                 ELSE FALSE]
  /\ pc' = [pc EXCEPT ![r] = "blacklist"]
  /\ UNCHANGED <<opts, now, store, id, blacklisted, limit, readNow, headers,
                 statusCode, ended, body, err, handlerCalls, storeQueries,
                 outcome>>

\* lines 53-54: a predicate rejects, and so does the request
PredicateFail(r) ==
  /\ pc[r] \in {"whitelist", "blacklist"}
  /\ Finish(r, "Error", Error("PredicateError", 0))
  /\ UNCHANGED <<opts, now, store, id, whitelisted, blacklisted, limit, readNow,
                 headers, statusCode, ended, body, handlerCalls, storeQueries>>

\* lines 54-68 with the denial written to the response, like a throttled
\* one, when opts.throw is not set
BlacklistReturnDenyInBand(r) ==
  /\ pc[r] = "blacklist"
  /\ \E isFunction \in BOOLEAN, answer \in BOOLEAN :
       LET b == IF isFunction THEN answer ELSE FALSE
           route == Route(b, id[r], whitelisted[r]) IN
       /\ blacklisted' = [blacklisted EXCEPT ![r] = b]
       /\ IF route = "deny"
            THEN /\ Finish(r, "Denied",
                           IF opts.throw
                             THEN Error("Forbidden", StatusForbidden)
                             ELSE NoError)
                 /\ statusCode' = [statusCode EXCEPT ![r] =
                                     IF opts.throw THEN @ ELSE StatusForbidden]
                 /\ ended' = [ended EXCEPT ![r] =
                                IF opts.throw THEN @ ELSE @ + 1]
                 /\ UNCHANGED <<handlerCalls, storeQueries>>
            ELSE IF route = "bypass"
              THEN /\ pc' = [pc EXCEPT ![r] = "handler"]
                   /\ outcome' = [outcome EXCEPT ![r] = "Bypassed"]
                   /\ handlerCalls' = [handlerCalls EXCEPT ![r] = @ + 1]
                   /\ UNCHANGED <<err, storeQueries, statusCode, ended>>
              ELSE IF LimiterThrows(id[r], opts.db)
                THEN /\ Finish(r, "Error", LimiterError(id[r], opts.db))
                     /\ UNCHANGED <<handlerCalls, storeQueries, statusCode,
                                    ended>>
                ELSE /\ pc' = [pc EXCEPT ![r] = "query"]
                     /\ storeQueries' = [storeQueries EXCEPT ![r] = @ + 1]
                     /\ UNCHANGED <<err, outcome, handlerCalls, statusCode,
                                    ended>>
  /\ UNCHANGED <<opts, now, store, id, whitelisted, limit, readNow, headers,
                 body>>

\* lines 54-68: the blacklist predicate answers; the request is denied, or
\* bypasses the quota and calls the handler, or builds its Limiter and
\* queries the store; it rejects when the Limiter cannot be built
BlacklistReturn(r) ==
  /\ pc[r] = "blacklist"
  /\ \E isFunction \in BOOLEAN, answer \in BOOLEAN :
       LET b == IF isFunction THEN answer ELSE FALSE
           route == Route(b, id[r], whitelisted[r]) IN
       /\ blacklisted' = [blacklisted EXCEPT ![r] = b]
       /\ IF route = "deny"
            THEN /\ Finish(r, "Denied", Error("Forbidden", StatusForbidden))
                 /\ UNCHANGED <<handlerCalls, storeQueries>>
            ELSE IF route = "bypass"
              THEN /\ pc' = [pc EXCEPT ![r] = "handler"]
                   /\ outcome' = [outcome EXCEPT ![r] = "Bypassed"]
                   /\ handlerCalls' = [handlerCalls EXCEPT ![r] = @ + 1]
                   /\ UNCHANGED <<err, storeQueries>>
              ELSE IF LimiterThrows(id[r], opts.db)
                THEN /\ Finish(r, "Error", LimiterError(id[r], opts.db))
                     /\ UNCHANGED <<handlerCalls, storeQueries>>
                ELSE /\ pc' = [pc EXCEPT ![r] = "query"]
                     /\ storeQueries' = [storeQueries EXCEPT ![r] = @ + 1]
                     /\ UNCHANGED <<err, outcome, handlerCalls>>
  /\ UNCHANGED <<opts, now, store, id, whitelisted, limit, readNow, headers,
                 statusCode, ended, body>>

\* lines 65-68 with the Limiter built without the id of the request: every
\* request consumes from one counter, kept under one key
StoreServeSharedKey(r) ==
  /\ pc[r] = "query"
  /\ limit' = [limit EXCEPT ![r] = StoreReply(store["a"], now, opts.max,
                                               opts.duration)]
  /\ store' = [store EXCEPT !["a"] = StoreNext(@, now, opts.max,
                                              opts.duration)]
  /\ pc' = [pc EXCEPT ![r] = "limit"]
  /\ UNCHANGED <<opts, now, id, whitelisted, blacklisted, readNow, headers,
                 statusCode, ended, body, err, handlerCalls, storeQueries,
                 outcome>>

\* line 68: the store serves the query, one atomic consume, and the reply
\* resolves the promise of thenify
StoreServe(r) ==
  /\ pc[r] = "query"
  /\ limit' = [limit EXCEPT ![r] = StoreReply(store[id[r]], now, opts.max,
                                               opts.duration)]
  /\ store' = [store EXCEPT ![id[r]] = StoreNext(@, now, opts.max,
                                                   opts.duration)]
  /\ pc' = [pc EXCEPT ![r] = "limit"]
  /\ UNCHANGED <<opts, now, id, whitelisted, blacklisted, readNow, headers,
                 statusCode, ended, body, err, handlerCalls, storeQueries,
                 outcome>>

\* line 68 with the query issued again when the store calls back with an
\* error
StoreFailRetry(r) ==
  /\ pc[r] = "query"
  /\ storeQueries[r] < 3
  /\ storeQueries' = [storeQueries EXCEPT ![r] = @ + 1]
  /\ UNCHANGED <<opts, now, store, pc, id, whitelisted, blacklisted, limit,
                 readNow, headers, statusCode, ended, body, err, handlerCalls,
                 outcome>>

\* line 68 with a failed query answered as a throttled one before the error
\* is passed on
StoreFailThrottle(r) ==
  /\ pc[r] = "query"
  /\ Finish(r, "Error", Error("StoreUnavailable", 0))
  /\ statusCode' = [statusCode EXCEPT ![r] = StatusTooMany]
  /\ ended' = [ended EXCEPT ![r] = @ + 1]
  /\ UNCHANGED <<opts, now, store, id, whitelisted, blacklisted, limit,
                 readNow, headers, body, handlerCalls, storeQueries>>

\* lines 104-113 with a callback that drops the error: the promise of
\* thenify never settles and the request stays suspended
StoreFailHang(r) ==
  /\ pc[r] = "query"
  /\ pc' = [pc EXCEPT ![r] = "hung"]
  /\ UNCHANGED <<opts, now, store, id, whitelisted, blacklisted, limit, readNow,
                 headers, statusCode, ended, body, err, handlerCalls,
                 storeQueries, outcome>>

\* lines 68 and 104-113: the store calls back with an error; thenify
\* rejects and the request rejects with it
StoreFail(r) ==
  /\ pc[r] = "query"
  /\ Finish(r, "Error", Error("StoreUnavailable", 0))
  /\ UNCHANGED <<opts, now, store, id, whitelisted, blacklisted, limit, readNow,
                 headers, statusCode, ended, body, handlerCalls, storeQueries>>

\* lines 70-96 with the return of line 83 missing: once the handler has
\* been called the throttled response is written as well
DecideFallThrough(r) ==
  /\ pc[r] = "limit"
  /\ \E d \in ClockSteps :
       LET h == RateHeaders(headers[r], opts.disableHeader, limit[r])
           sig == Signal(opts.throw, opts.errorMessage,
                         Delta(limit[r].reset, now)) IN
       /\ d = 0 \/ now + d <= MaxTicks * TickMs
       /\ readNow' = [readNow EXCEPT ![r] = <<now, now + d>>]
       /\ now' = now + d
       /\ headers' = [headers EXCEPT ![r] =
            setHeader(h, RetryAfter, After(limit[r].reset, now + d))]
       /\ statusCode' = [statusCode EXCEPT ![r] = StatusTooMany]
       /\ Finish(r, IF Admits(limit[r].remaining) THEN "Admitted"
                    ELSE "Throttled", sig.err)
       /\ ended' = [ended EXCEPT ![r] = @ + sig.ended]
       /\ body' = [body EXCEPT ![r] = IF sig.ended > 0 THEN sig.body ELSE @]
       /\ handlerCalls' = [handlerCalls EXCEPT ![r] =
            IF Admits(limit[r].remaining) THEN @ + 1 ELSE @]
  /\ UNCHANGED <<opts, store, id, whitelisted, blacklisted, limit,
                 storeQueries>>

\* lines 70-96: the reply is in; headers, then admit or throttle.  The
\* request rejects with the TypeError of a res.setHeader that throws.  A
\* throttled request reads the clock twice, at line 85 for delta and at
\* line 86 for Retry-After, and the clock may have moved on in between.
Decide(r) ==
  /\ pc[r] = "limit"
  /\ LET h == RateHeaders(headers[r], opts.disableHeader, limit[r])
         sig == Signal(opts.throw, opts.errorMessage,
                       Delta(limit[r].reset, now)) IN
     IF RateHeadersThrow(opts.disableHeader)
       THEN /\ headers' = [headers EXCEPT ![r] = h]
            /\ Finish(r, "Error", Error("ERR_INVALID_HTTP_TOKEN", 0))
            /\ UNCHANGED <<now, readNow, statusCode, ended, body,
                           handlerCalls>>
     ELSE IF Admits(limit[r].remaining)
       THEN /\ headers' = [headers EXCEPT ![r] = h]
            /\ pc' = [pc EXCEPT ![r] = "handler"]
            /\ outcome' = [outcome EXCEPT ![r] = "Admitted"]
            /\ handlerCalls' = [handlerCalls EXCEPT ![r] = @ + 1]
            /\ UNCHANGED <<now, readNow, statusCode, ended, body, err>>
       ELSE \E d \in ClockSteps :
            /\ d = 0 \/ now + d <= MaxTicks * TickMs
            /\ readNow' = [readNow EXCEPT ![r] = <<now, now + d>>]
            /\ now' = now + d
            /\ headers' = [headers EXCEPT ![r] =
                 setHeader(h, RetryAfter, After(limit[r].reset, now + d))]
            /\ statusCode' = [statusCode EXCEPT ![r] = StatusTooMany]
            /\ Finish(r, "Throttled", sig.err)
            /\ ended' = [ended EXCEPT ![r] = @ + sig.ended]
            /\ body' = [body EXCEPT ![r] = IF sig.ended > 0 THEN sig.body
                                           ELSE @]
            /\ UNCHANGED handlerCalls
  /\ UNCHANGED <<opts, store, id, whitelisted, blacklisted, limit,
                 storeQueries>>

\* lines 62 and 83: the handler returns and its result is the request's
HandlerReturn(r) ==
  /\ pc[r] = "handler"
  /\ pc' = [pc EXCEPT ![r] = "done"]
  /\ UNCHANGED <<opts, now, store, id, whitelisted, blacklisted, limit, readNow,
                 headers, statusCode, ended, body, err, handlerCalls,
                 storeQueries, outcome>>

\* lines 62 and 83: the handler rejects and the request rejects with it
HandlerFail(r) ==
  /\ pc[r] = "handler"
  /\ pc' = [pc EXCEPT ![r] = "done"]
  /\ err' = [err EXCEPT ![r] = Error("HandlerError", 0)]
  /\ UNCHANGED <<opts, now, store, id, whitelisted, blacklisted, limit, readNow,
                 headers, statusCode, ended, body, handlerCalls, storeQueries,
                 outcome>>

\* the clock advances
Tick ==
  /\ now < MaxTicks * TickMs
  /\ now' = now + TickMs
  /\ UNCHANGED <<opts, store, reqVars>>

Next ==
  \/ Tick
  \/ \E r \in Req : Invoke(r)
  \/ \E r \in Req : WhitelistReturn(r)
  \/ \E r \in Req : PredicateFail(r)
  \/ \E r \in Req : BlacklistReturn(r)
  \/ \E r \in Req : StoreServe(r)
  \/ \E r \in Req : StoreFail(r)
  \/ \E r \in Req : Decide(r)
  \/ \E r \in Req : HandlerReturn(r)
  \/ \E r \in Req : HandlerFail(r)

Spec == Init /\ [][Next]_vars

\* the steps of the first request alone
NextRequest ==
  \/ Tick
  \/ InvokeAny(1)
  \/ WhitelistReturn(1)
  \/ PredicateFail(1)
  \/ BlacklistReturn(1)
  \/ StoreServe(1)
  \/ StoreFail(1)
  \/ Decide(1)
  \/ HandlerReturn(1)
  \/ HandlerFail(1)

SpecRequest == InitRequest /\ [][NextRequest]_vars

\* one request as above, the headers under their default names and the
\* connection to the store given
InitRequestPlain ==
  InitRequest /\ opts.headers = NoNames /\ opts.db = Redis

SpecRequestPlain == InitRequestPlain /\ [][NextRequest]_vars

\* the same where every awaited call settles: each predicate, the store and
\* the handler eventually return or fail, and the continuation of a settled
\* await is eventually run by the event loop
SpecRequestFair ==
  /\ SpecRequestPlain
  /\ WF_vars(WhitelistReturn(1) \/ PredicateFail(1))
  /\ WF_vars(BlacklistReturn(1) \/ PredicateFail(1))
  /\ WF_vars(StoreServe(1) \/ StoreFail(1))
  /\ WF_vars(Decide(1))
  /\ WF_vars(HandlerReturn(1) \/ HandlerFail(1))

(* ---------------------------------------------------------------------- *)
(* Vocabulary of the properties.                                           *)
(* ---------------------------------------------------------------------- *)
\* both predicates of request r have answered (neither rejected)
Answered(r) ==
  /\ pc[r] \in {"query", "limit", "handler", "done"}
  /\ err[r].message \notin {"PredicateError", "TypeError"}

\* request r got the store's reply and acted on it (lines 70-96 ran)
Decided(r) == outcome[r] \in {"Admitted", "Throttled"}

\* the store's reply reached request r and lines 70-96 ran
Replied(r) == limit[r].total > 0 /\ pc[r] \in {"handler", "done"}

\* the rate-limit headers the response of r holds, whatever their case
RateHeadersOf(r) ==
  {name \in RateLimitHeaders : getHeader(headers[r], name) # {}}

\* the requests admitted on the quota path for the identity and window of r
AdmittedWith(r) ==
  {q \in Req : /\ outcome[q] = "Admitted"
               /\ handlerCalls[q] > 0
               /\ id[q] = id[r]
               /\ limit[q].reset = limit[r].reset}

(* ---------------------------------------------------------------------- *)
(* Properties.                                                             *)
(* ---------------------------------------------------------------------- *)

\* C1: for every identity and every window, under any interleaving of the
\* requests, the number of requests whose handler is invoked on the quota
\* path never exceeds opts.max.
C1_AdmittedWithinMax ==
  \A r \in Req :
    Decided(r) => Cardinality(AdmittedWith(r)) <= opts.max

\* C1 happens: a window in which max requests were admitted and one more
\* request of the same identity was throttled
C1_Witness ==
  \E r \in Req :
    /\ outcome[r] = "Throttled"
    /\ Cardinality(AdmittedWith(r)) = opts.max

\* C2: whenever the blacklist predicate returns true, the request ends with
\* the error 'Forbidden' carrying statusCode 493, whatever the whitelist
\* predicate answered and whatever the identity is (false included).
C2_BlacklistedIsForbidden ==
  \A r \in Req :
    blacklisted[r] =>
      /\ pc[r] = "done"
      /\ outcome[r] = "Denied"
      /\ err[r] = [raised |-> TRUE, message |-> "Forbidden", statusCode |-> 493]

\* C2 happens: a blacklisted request that is whitelisted too and whose
\* identity is the disabled sentinel
C2_Witness ==
  \E r \in Req :
    blacklisted[r] /\ whitelisted[r] /\ id[r] = JsFalse /\ pc[r] = "done"

\* C3: a request that is not blacklisted and whose identity is false or that
\* is whitelisted never queries the store, gets none of the three rate-limit
\* headers, and has the handler invoked.
C3_BypassSkipsStoreAndHeaders ==
  \A r \in Req :
    (Answered(r) /\ ~blacklisted[r] /\ (id[r] = JsFalse \/ whitelisted[r])) =>
      /\ storeQueries[r] = 0
      /\ RateHeadersOf(r) = {}
      /\ handlerCalls[r] = 1

\* C3 happens: a whitelisted request with an identity the store would count
C3_Witness ==
  \E r \in Req :
    /\ Answered(r) /\ ~blacklisted[r] /\ whitelisted[r] /\ id[r] \in Ids
    /\ handlerCalls[r] = 1

\* C4, as stated: on a request that reached the quota query with headers
\* enabled, the total header is the reply's total, the reset header the
\* reply's reset, and the remaining header the reply's remaining - 1 when
\* that is positive and 0 otherwise; it is never negative.
C4_HeadersFromReply ==
  \A r \in Req :
    (Replied(r) /\ ~opts.disableHeader) =>
      /\ getHeader(headers[r], total) = {limit[r].total}
      /\ getHeader(headers[r], reset) = {limit[r].reset}
      /\ getHeader(headers[r], remaining) =
           {IF limit[r].remaining > 0 THEN limit[r].remaining - 1 ELSE 0}
      /\ \A v \in getHeader(headers[r], remaining) : v >= 0

\* the names res.setHeader can tell apart
Keys(names) == {toLowerCase(name) : name \in names}

\* each of the three headers of request r can be set and no header set
\* after it takes its place: the three names are HTTP tokens that differ
\* from one another by more than case and, when r is to be throttled, from
\* the name of the header of line 87
NamesApart(r) ==
  /\ \A name \in RateLimitHeaders : checkIsHttpToken(name)
  /\ Cardinality(Keys(RateLimitHeaders)) = 3
  /\ limit[r].remaining = 0 =>
       toLowerCase(RetryAfter) \notin Keys(RateLimitHeaders)

\* C4, amended: the same when the three names are HTTP tokens that differ
\* from one another by more than case and, on a request to be throttled,
\* from Retry-After: each of the three headers is then on the response
\* under its name, once, with the value stated.
C4_HeadersFromReplyApart ==
  \A r \in Req :
    (Replied(r) /\ ~opts.disableHeader /\ NamesApart(r)) =>
      /\ Decided(r)
      /\ RateHeadersOf(r) = RateLimitHeaders
      /\ <<total, limit[r].total>> \in headers[r]
      /\ <<reset, limit[r].reset>> \in headers[r]
      /\ <<remaining, IF limit[r].remaining > 0
                        THEN limit[r].remaining - 1 ELSE 0>> \in headers[r]
      /\ \A p, q \in headers[r] :
           toLowerCase(p[1]) = toLowerCase(q[1]) => p = q
      /\ \A v \in getHeader(headers[r], remaining) : v >= 0

\* C4 happens: a throttled request (the reply's remaining is 0, the header
\* is clamped) with headers enabled, under names of its own
C4_Witness ==
  \E r \in Req :
    /\ outcome[r] = "Throttled" /\ ~opts.disableHeader
    /\ opts.headers.remaining = <<82>> /\ NamesApart(r)
    /\ limit[r].remaining = 0
    /\ <<<<82>>, 0>> \in headers[r]

\* C5, as stated: on a request neither bypassed nor denied, for every reply
\* of the store, the handler is invoked if and only if the reply's
\* remaining is greater than 0; otherwise the request is throttled with
\* status 429 and the handler is not invoked.
C5_AdmitIffRemaining ==
  \A r \in Req :
    Replied(r) =>
      /\ handlerCalls[r] = 1 <=> limit[r].remaining > 0
      /\ limit[r].remaining > 0 => outcome[r] = "Admitted"
      /\ ~(limit[r].remaining > 0) =>
           /\ outcome[r] = "Throttled"
           /\ statusCode[r] = 429
           /\ handlerCalls[r] = 0

\* C5, amended: the same when the rate-limit headers are disabled or their
\* three names are HTTP tokens; when one is not, res.setHeader throws, the
\* request fails with that TypeError whatever the reply, the handler is
\* not invoked and the status is left as it was.
C5_AdmitIffRemainingTokens ==
  \A r \in Req :
    Replied(r) =>
      IF RateHeadersThrow(opts.disableHeader)
        THEN /\ outcome[r] = "Error"
             /\ err[r] = Error("ERR_INVALID_HTTP_TOKEN", 0)
             /\ handlerCalls[r] = 0
             /\ statusCode[r] = 200
        ELSE /\ handlerCalls[r] = 1 <=> limit[r].remaining > 0
             /\ limit[r].remaining > 0 => outcome[r] = "Admitted"
             /\ ~(limit[r].remaining > 0) =>
                  /\ outcome[r] = "Throttled"
                  /\ statusCode[r] = 429
                  /\ handlerCalls[r] = 0

\* C5 happens: the last unit of the quota is handed out: the reply's
\* remaining is 1 and the handler is invoked
C5_Witness ==
  \E r \in Req :
    outcome[r] = "Admitted" /\ limit[r].remaining = 1 /\ handlerCalls[r] = 1

\* v is reset - now / 1000 truncated toward zero: with s the whole seconds
\* and f the milliseconds of now, reset - s when f = 0, and otherwise
\* reset - s - 1 while that is not negative and reset - s when it is
IsTruncated(v, rst, t) ==
  LET s == t \div 1000
      f == t % 1000
  IN  v = IF f = 0 \/ rst - s <= 0 THEN rst - s ELSE rst - s - 1

\* C6, as stated: on every throttled request the Retry-After header equals
\* reset - floor(now / 1000) and the status is 429.
C6_RetryAfterFloorNow ==
  \A r \in Req :
    outcome[r] = "Throttled" =>
      /\ statusCode[r] = 429
      /\ <<RetryAfter, limit[r].reset - (readNow[r][2] \div 1000)>>
           \in headers[r]

\* C6, amended: on every throttled request the status is 429 and the
\* Retry-After header equals reset - now / 1000 truncated toward zero, now
\* being the clock as read at line 86 (the whole seconds left of the
\* window; the same as reset - floor(now / 1000) only when now is a
\* multiple of 1000 or the window has closed).
C6_RetryAfterTruncated ==
  \A r \in Req :
    outcome[r] = "Throttled" =>
      /\ statusCode[r] = 429
      /\ \E p \in headers[r] :
           /\ p[1] = RetryAfter
           /\ IsTruncated(p[2], limit[r].reset, readNow[r][2])
      /\ \A p, q \in headers[r] : p[1] = q[1] => p = q

\* C6 happens: a request throttled half a second into a second, while the
\* window is open
C6_Witness ==
  \E r \in Req :
    /\ outcome[r] = "Throttled"
    /\ readNow[r][2] % 1000 # 0
    /\ readNow[r][2] \div 1000 < limit[r].reset

\* C7: on a throttled request, with opts.throw an error carrying statusCode
\* 429 is raised and res.end is never called; without it no error is raised
\* and the response is ended exactly once, with opts.errorMessage when one is
\* configured (a non-empty string) and the default message otherwise.  The
\* handler is not invoked in either mode.
C7_ThrowSelectsSignal ==
  \A r \in Req :
    outcome[r] = "Throttled" =>
      /\ handlerCalls[r] = 0
      /\ opts.throw =>
           /\ err[r].raised /\ err[r].statusCode = 429
           /\ ended[r] = 0
      /\ ~opts.throw =>
           /\ ~err[r].raised
           /\ ended[r] = 1
           /\ body[r].text = IF opts.errorMessage \notin {JsUndefined, ""}
                               THEN opts.errorMessage
                               ELSE DefaultMessage

\* C7 happens: a request throttled under opts.throw
C7_Witness ==
  \E r \in Req :
    outcome[r] = "Throttled" /\ opts.throw /\ err[r].raised /\ ended[r] = 0

\* C8: with opts.disableHeader none of the three rate-limit headers is set
\* (lines 77-79 are skipped), on any outcome: the response of an admitted
\* or bypassed request holds no header, and that of a throttled request
\* none but the Retry-After that line 87 sets.
C8_DisableHeaderSetsNone ==
  opts.disableHeader =>
    \A r \in Req :
      /\ HeaderNames(headers[r]) \subseteq {RetryAfter}
      /\ headers[r] # {} => outcome[r] = "Throttled"

\* C8 happens: a request throttled under disableHeader: Retry-After is the
\* one header of its response
C8_Witness ==
  /\ opts.disableHeader
  /\ \E r \in Req : outcome[r] = "Throttled" /\ pc[r] = "done"
                     /\ HeaderNames(headers[r]) = {RetryAfter}

\* C9, as stated: in every execution of a request the handler is invoked
\* at most once, and the store is queried exactly once when the request is
\* neither bypassed nor denied and never otherwise; a throttled request has
\* issued its query.
C9_OneHandlerOneQuery ==
  \A r \in Req :
    /\ handlerCalls[r] <= 1
    /\ storeQueries[r] =
         IF /\ Answered(r)
            /\ ~blacklisted[r]
            /\ ~(id[r] = JsFalse \/ whitelisted[r])
           THEN 1 ELSE 0
    /\ outcome[r] = "Throttled" => storeQueries[r] = 1 /\ handlerCalls[r] = 0
    /\ outcome[r] \in {"Bypassed", "Denied"} => storeQueries[r] = 0

\* C9, amended: in every execution of a request the handler is invoked at
\* most once, and the store is queried exactly once when the request is
\* neither bypassed nor denied and its Limiter can be built (the identity
\* is truthy and a connection is configured), and never otherwise; a
\* throttled request has issued its query.
C9_OneQueryWhenLimiterBuilt ==
  \A r \in Req :
    /\ handlerCalls[r] <= 1
    /\ storeQueries[r] =
         IF /\ Answered(r)
            /\ ~blacklisted[r]
            /\ ~(id[r] = JsFalse \/ whitelisted[r])
            /\ ~LimiterThrows(id[r], opts.db)
           THEN 1 ELSE 0
    /\ outcome[r] = "Throttled" => storeQueries[r] = 1 /\ handlerCalls[r] = 0
    /\ outcome[r] \in {"Bypassed", "Denied"} => storeQueries[r] = 0

\* C9 happens: a request was throttled after its one query, without a call
\* of the handler
C9_Witness ==
  \E r \in Req :
    /\ pc[r] = "done" /\ outcome[r] = "Throttled"
    /\ storeQueries[r] = 1 /\ handlerCalls[r] = 0

\* C10: when the store's query fails, the failure is the request's error:
\* the store is not queried again, the handler is not invoked, no header is
\* set, the status is left as it was and the response is not ended.
C10_StoreFailurePropagates ==
  \A r \in Req :
    err[r].message = "StoreUnavailable" =>
      /\ pc[r] = "done" /\ err[r].raised
      /\ storeQueries[r] = 1
      /\ handlerCalls[r] = 0
      /\ headers[r] = {}
      /\ statusCode[r] = 200
      /\ ended[r] = 0

\* C10 happens: a request whose query the store failed
C10_Witness ==
  \E r \in Req :
    err[r].message = "StoreUnavailable" /\ storeQueries[r] = 1 /\ pc[r] = "done"

\* C11: a denied request raises its error whether or not opts.throw is set
\* and has no other effect: no store query, no call of the handler, no
\* header, no status written, the response not ended.
C11_DeniedOnlyRaises ==
  \A r \in Req :
    blacklisted[r] =>
      /\ err[r].raised /\ err[r].message = "Forbidden"
      /\ err[r].statusCode = 493
      /\ storeQueries[r] = 0
      /\ handlerCalls[r] = 0
      /\ headers[r] = {}
      /\ statusCode[r] = 200
      /\ ended[r] = 0
      /\ body[r] = NoBody

\* C11 happens: a request denied while opts.throw is not set
C11_Witness ==
  \E r \in Req : outcome[r] = "Denied" /\ ~opts.throw /\ err[r].raised

\* C12, as stated: the blacklist predicate is awaited before the whitelist
\* predicate, and the identity is resolved after both.
C12_BlacklistThenWhitelistThenId ==
  [][\A r \in Req :
       /\ (pc'[r] = "whitelist" /\ pc[r] # "whitelist") => pc[r] = "blacklist"
       /\ id'[r] # id[r] => pc[r] \notin {"idle", "whitelist", "blacklist"}]_vars

\* C12, amended: within one request the identity is resolved first, then
\* the whitelist predicate is awaited, then the blacklist predicate; only
\* then is the request denied or bypassed, and the store is queried after
\* both predicates have answered.
C12_IdThenWhitelistThenBlacklist ==
  [][\A r \in Req :
       /\ id'[r] # id[r] => pc[r] = "idle"
       /\ (pc[r] = "idle" /\ pc'[r] # "idle") => pc'[r] \in {"whitelist", "done"}
       /\ (pc[r] = "whitelist" /\ pc'[r] # "whitelist") =>
            pc'[r] \in {"blacklist", "done"}
       /\ whitelisted'[r] # whitelisted[r] => pc[r] = "whitelist"
       /\ blacklisted'[r] # blacklisted[r] => pc[r] = "blacklist"
       /\ (pc'[r] = "blacklist" /\ pc[r] # "blacklist") => pc[r] = "whitelist"
       /\ outcome'[r] \in {"Denied", "Bypassed"} /\ outcome[r] = "none" =>
            pc[r] = "blacklist"
       /\ storeQueries'[r] # storeQueries[r] =>
            pc[r] = "blacklist" /\ pc'[r] = "query"]_vars

\* C12 happens: the identity is resolved and the whitelist predicate has
\* answered true while the blacklist predicate is still awaited
C12_Witness ==
  \E r \in Req :
    pc[r] = "blacklist" /\ whitelisted[r] /\ id[r] = "a" /\ storeQueries[r] = 0

\* what can be seen of a finished request
SeenDenied(r) == err[r].raised /\ err[r].statusCode = 493
SeenBypassed(r) == handlerCalls[r] > 0 /\ storeQueries[r] = 0
SeenAdmitted(r) == handlerCalls[r] > 0 /\ storeQueries[r] > 0
SeenThrottled(r) == statusCode[r] = 429
SeenFailed(r) == err[r].message \in {"PredicateError", "StoreUnavailable"}

\* the request rejected with an error thrown on its way: the TypeError of
\* keyGenerator (line 38), the assertion of the Limiter constructor (line
\* 65), or the TypeError of res.setHeader (lines 77-79)
SeenThrown(r) ==
  err[r].message \in {"TypeError", ".id required", ".db required",
                      "ERR_INVALID_HTTP_TOKEN"}

SeenCount(r) ==
  Cardinality({k \in 1..5 :
     \/ k = 1 /\ SeenDenied(r)
     \/ k = 2 /\ SeenBypassed(r)
     \/ k = 3 /\ SeenAdmitted(r)
     \/ k = 4 /\ SeenThrottled(r)
     \/ k = 5 /\ SeenFailed(r)})

\* C13, as stated: every request that completes ends in exactly one of
\* Denied, Bypassed, Admitted, Throttled or the propagated error of a
\* predicate or of the store; the handler is invoked exactly in Bypassed
\* and Admitted.
C13_OneOutcome ==
  \A r \in Req :
    pc[r] = "done" =>
      /\ SeenCount(r) = 1
      /\ handlerCalls[r] = 1 <=> (SeenBypassed(r) \/ SeenAdmitted(r))
      /\ handlerCalls[r] = 0 <=>
           (SeenDenied(r) \/ SeenThrottled(r) \/ SeenFailed(r))

\* C13, amended: every request that completes ends in exactly one of
\* Denied, Bypassed, Admitted, Throttled, the propagated error of a
\* predicate or of the store, or an error thrown on the way (by the
\* identity resolution, by the Limiter constructor or by res.setHeader);
\* the handler is invoked exactly in Bypassed and Admitted.
C13_OneOutcomeOrThrown ==
  \A r \in Req :
    pc[r] = "done" =>
      /\ SeenCount(r) + (IF SeenThrown(r) THEN 1 ELSE 0) = 1
      /\ handlerCalls[r] = 1 <=> (SeenBypassed(r) \/ SeenAdmitted(r))
      /\ handlerCalls[r] = 0 <=>
           (SeenDenied(r) \/ SeenThrottled(r) \/ SeenFailed(r)
              \/ SeenThrown(r))

\* C13 happens: a request that completed throttled, which is neither denied
\* nor failed and never reached the handler
C13_Witness ==
  \E r \in Req :
    pc[r] = "done" /\ SeenThrottled(r) /\ SeenCount(r) = 1 /\ handlerCalls[r] = 0

\* C14: when every predicate call, store query and handler call eventually
\* returns or fails, a request that was invoked eventually ends, its promise
\* resolved or rejected.
C14_InvokedEventuallyEnds ==
  \A r \in {1} : (pc[r] # "idle") ~> (pc[r] = "done")

\* a request that waited on both predicates, the store and the handler, and
\* ended
C14_Witness ==
  /\ pc[1] = "done"
  /\ storeQueries[1] = 1
  /\ handlerCalls[1] = 1
  /\ outcome[1] = "Admitted"

\* request q has been received by the server
Arrived(q) == q = 1 \/ pc[q - 1] # "idle"

\* the next step of request q can be taken now
CanStep(q) ==
  /\ pc[q] = "idle" /\ Arrived(q) => ENABLED Invoke(q)
  /\ pc[q] = "whitelist" => ENABLED WhitelistReturn(q)
  /\ pc[q] = "blacklist" => ENABLED BlacklistReturn(q)
  /\ pc[q] = "query" => ENABLED StoreServe(q)
  /\ pc[q] = "limit" => ENABLED Decide(q)
  /\ pc[q] = "handler" => ENABLED HandlerReturn(q)

\* C15: while a request is suspended at a predicate or at the store query,
\* every other request can still take its next step, whatever that step is,
\* so that it can go on to its end.
C15_SuspendedNeverBlocks ==
  \A r \in Req : pc[r] \in {"whitelist", "blacklist", "query"} =>
    \A q \in Req \ {r} : CanStep(q)

\* the second request was admitted and ended while the first, invoked
\* before it, is still waiting for the store
C15_Witness ==
  /\ pc[1] = "query"
  /\ pc[2] = "done"
  /\ outcome[2] = "Admitted"

\* the requests the store served before request r, for the identity of r
\* and in the window of r: their replies are in, with the reset of r's
ServedBefore(r, rst) ==
  {q \in Req \ {r} : /\ pc[q] \in {"limit", "handler", "done"}
                      /\ limit[q].total > 0
                      /\ id[q] = id[r]
                      /\ limit[q].reset = rst}

\* the requests of the identity and window of r that the store served with
\* more remaining than r, all of them before r: with r, which is not ahead
\* of itself, they are the first k served, or the first M + 1 when r came
\* after the M-th
AheadOf(r) ==
  {q \in Req : /\ pc[q] \in {"limit", "handler", "done"}
               /\ limit[q].total > 0
               /\ id[q] = id[r]
               /\ limit[q].reset = limit[r].reset
               /\ limit[q].remaining > limit[r].remaining}

Max(x, y) == IF x > y THEN x ELSE y

\* C16: for one identity, from a fresh window with max = M, the k-th request
\* the store serves gets remaining M - (k - 1), or 0 from the M+1-th on, no
\* more than any request served before it; it is admitted when it is among
\* the first M and throttled otherwise, and its remaining header is
\* M - k, or 0, so that the headers in the order of service never increase.
C16_FirstMaxAdmitted ==
  [][\A r \in Req :
       /\ (pc[r] = "query" /\ pc'[r] = "limit") =>
            LET before == ServedBefore(r, limit'[r].reset) IN
            /\ limit'[r].remaining =
                 Max(opts.max - Cardinality(before), 0)
            /\ \A q \in before : limit[q].remaining >= limit'[r].remaining
       /\ (pc[r] = "limit" /\ pc'[r] # "limit") =>
            LET k == Cardinality(AheadOf(r)) + 1 IN
            /\ outcome'[r] = IF k <= opts.max THEN "Admitted"
                             ELSE "Throttled"
            /\ handlerCalls'[r] = IF k <= opts.max THEN 1 ELSE 0
            /\ <<remaining, Max(opts.max - k, 0)>> \in headers'[r]
    ]_vars

\* with max = M, M requests of one identity were admitted in one window,
\* the last of them with a remaining header of 0, and a later one of the
\* window was throttled, with a remaining header of 0 again
C16_Witness ==
  \E r, q \in Req :
    /\ outcome[r] = "Throttled" /\ outcome[q] = "Admitted"
    /\ id[q] = id[r] /\ limit[q].reset = limit[r].reset
    /\ Cardinality(AdmittedWith(q)) = opts.max
    /\ limit[q].remaining = 1 /\ <<remaining, 0>> \in headers[q]
    /\ limit[r].remaining = 0 /\ <<remaining, 0>> \in headers[r]

\* C17: the delta embedded in the default throttling message is
\* reset * 1000 - now, the milliseconds left until the window closes, for
\* every reset and now, windows with more than 2^31 ms left included.  The
\* difference is compared as thousands and remainder.
C17_DeltaIsTimeLeft ==
  \A r \in Req :
    (outcome[r] = "Throttled" /\ ended[r] > 0
       /\ body[r].text = DefaultMessage) =>
      LET left == MsBetween(limit[r].reset, readNow[r][1]) IN
      /\ body[r].delta \div 1000 = left.q
      /\ body[r].delta % 1000 = left.r

\* C18, as stated: only the value false disables limiting.  A request
\* that is neither whitelisted nor blacklisted and whose identity is
\* anything else, the empty string and undefined included, is not bypassed:
\* its handler is not called before the store has replied, the store is
\* queried once, and the reply it acts on is that of the counter kept under
\* that very identity.
C18_OnlyFalseDisables ==
  \A r \in Req :
    (Answered(r) /\ ~blacklisted[r] /\ ~whitelisted[r] /\ id[r] # JsFalse) =>
      /\ outcome[r] # "Bypassed"
      /\ storeQueries[r] = 1
      /\ pc[r] = "query" => handlerCalls[r] = 0
      /\ limit[r].total > 0 =>
           /\ store[id[r]].count >= 1
           /\ store[id[r]].reset >= limit[r].reset

\* C18, amended: only the value false disables limiting.  A request that
\* is neither whitelisted nor blacklisted and whose identity is anything
\* else is not bypassed: a Limiter is built with that identity.  When the
\* identity is truthy (and a connection is configured) the store is queried
\* once, with that identity, before the handler can be called; when it is
\* empty or undefined the constructor rejects it: the request fails with
\* that error, the store is not queried and the handler is not called.
C18_OnlyFalseBypasses ==
  \A r \in Req :
    (Answered(r) /\ ~blacklisted[r] /\ ~whitelisted[r] /\ id[r] # JsFalse) =>
      /\ outcome[r] # "Bypassed"
      /\ IF LimiterThrows(id[r], opts.db)
           THEN /\ pc[r] = "done"
                /\ err[r] = LimiterError(id[r], opts.db)
                /\ storeQueries[r] = 0
                /\ handlerCalls[r] = 0
                /\ headers[r] = {}
           ELSE /\ storeQueries[r] = 1
                /\ pc[r] = "query" => handlerCalls[r] = 0
                /\ limit[r].total > 0 =>
                     /\ store[id[r]].count >= 1
                     /\ store[id[r]].reset >= limit[r].reset

\* C18 happens: a request with a falsy identity other than false, a
\* connection being configured, was not bypassed: it ended on the error of
\* the Limiter constructor without a query or a call of the handler
C18_Witness ==
  /\ id[1] \in FalsyIds /\ opts.db = Redis
  /\ ~whitelisted[1] /\ ~blacklisted[1]
  /\ pc[1] = "done"
  /\ err[1].message = ".id required"
  /\ storeQueries[1] = 0 /\ handlerCalls[1] = 0

\* what the client of request q can observe of it
Observed(q) ==
  <<limit[q], headers[q], statusCode[q], ended[q], body[q], err[q],
    handlerCalls[q], outcome[q]>>

\* C19: the quota is kept per identity.  A step of a request leaves the
\* counter of every other identity as it was and changes nothing of what
\* any other request observes, and the reply a request gets is computed
\* from the counter of its own identity alone: the outcome and headers of
\* the requests of A are the same whatever requests are made for B.
C19_QuotaPerIdentity ==
  [][\A r \in Req :
       pc'[r] # pc[r] =>
         /\ \A i \in Ids \ {id'[r]} : store'[i] = store[i]
         /\ \A q \in Req \ {r} : Observed(q)' = Observed(q)
         /\ (pc[r] = "query" /\ pc'[r] = "limit") =>
              limit'[r] = StoreReply(store[id[r]], now, opts.max,
                                     opts.duration)
    ]_vars

\* with max = 1, two requests of two identities were both admitted in the
\* same second: neither used the quota of the other
C19_Witness ==
  /\ opts.max = 1
  /\ id[1] # id[2]
  /\ outcome[1] = "Admitted" /\ outcome[2] = "Admitted"
  /\ limit[1].remaining = 1 /\ limit[2].remaining = 1
  /\ limit[1].reset = limit[2].reset

====
